---- MODULE Spec2Model ----
(***************************************************************************)
(* update_site_config.py: the site configuration updater of the Frappe     *)
(* operator.  The script reads nine secrets from /tmp/site-secrets, loads  *)
(* or initialises <sites>/<site_name>/site_config.json, overlays eight     *)
(* computed keys, ensures the site and logs directories, rewrites the      *)
(* file and prints three status lines.                                     *)
(*                                                                         *)
(* Text is modelled as a sequence of tokens (a token is an atomic piece    *)
(* of text such as "acme", " " or "\n"), so that trimming, string          *)
(* interpolation and path joining are computed and not assumed.            *)
(***************************************************************************)
EXTENDS Integers, Sequences, FiniteSets, TLC

(* ---------------------------------------------------------------- bounds *)

\* Longest list of key/value members in a pre-existing site_config.json.
MaxPairs == 2

\* Number of invocations of the script by the orchestrator.
MaxRuns == 2

(* ------------------------------------------------------------------ text *)

Whitespace == {" ", "\n"}

RECURSIVE LStrip(_)
LStrip(s) == IF s # <<>> /\ Head(s) \in Whitespace THEN LStrip(Tail(s)) ELSE s

RECURSIVE RStrip(_)
RStrip(s) ==
  IF s # <<>> /\ s[Len(s)] \in Whitespace
  THEN RStrip(SubSeq(s, 1, Len(s) - 1))
  ELSE s

\* str.strip()
Strip(s) == RStrip(LStrip(s))

\* The nine secrets, in the order the script reads them.
SecretOrder ==
  << "site_name", "domain", "bench_name", "db_host", "db_port",
     "db_name", "db_user", "db_password", "db_provider" >>

SecretNames == { SecretOrder[i] : i \in 1..Len(SecretOrder) }

\* The keys the script assigns, in assignment order.
ComputedKeys ==
  << "host_name", "redis_cache", "redis_queue",
     "db_name", "db_user", "db_password", "db_host", "db_type" >>

ComputedKeySet == { ComputedKeys[i] : i \in 1..Len(ComputedKeys) }

(* ----------------------------------------------------------- secret files *)

Absent == [kind |-> "absent", text |-> <<>>]
Unreadable == [kind |-> "unreadable", text |-> <<>>]
Directory == [kind |-> "directory", text |-> <<>>]
File(t) == [kind |-> "file", text |-> t]

\* The content each secret file holds when the orchestrator has mounted it.
Mounted(name) ==
  CASE name = "site_name" -> File(<<"acme", "\n">>)
    [] name = "domain" -> File(<<" ", "acme.example.com", "\n">>)
    [] name = "bench_name" -> File(<<"bench1">>)
    [] name = "db_host" -> File(<<"pg1">>)
    [] name = "db_port" -> File(<<"5432">>)
    [] name = "db_name" -> File(<<"acmedb">>)
    [] name = "db_user" -> File(<<"acme_u">>)
    [] name = "db_password" -> File(<<"secret">>)
    [] OTHER -> File(<<"postgres">>)

\* The states of /tmp/site-secrets/<name> that are explored.
SecretFileStates(name) ==
  CASE name = "site_name" -> {Mounted(name), Absent, File(<<" ", "\n">>)}
    [] name = "domain" -> {Mounted(name), Absent, Unreadable}
    [] name = "db_port" -> {Mounted(name), Absent, Directory}
    [] OTHER -> {Mounted(name), Absent}

AllMounted == [n \in SecretNames |-> Mounted(n)]

\* The states of the secrets directory the script may start in: site_name,
\* domain and db_port vary freely, each of the others is missing on its own,
\* or the whole directory is empty.
SecretDirStates ==
  { [AllMounted EXCEPT !["site_name"] = a, !["domain"] = b, !["db_port"] = c] :
      a \in SecretFileStates("site_name"), b \in SecretFileStates("domain"),
      c \in SecretFileStates("db_port") }
  \cup UNION { { [AllMounted EXCEPT ![n] = s] : s \in SecretFileStates(n) } :
                 n \in SecretNames }
  \cup { [n \in SecretNames |-> Absent] }

\* The domain secret after the orchestrator has rotated it.
RotatedDomain == File(<<"new.example.com", "\n">>)

(* ------------------------------------------------------------ file system *)

SitesPrefix == "/home/frappe/frappe-bench/sites/"

Separators == {"/", SitesPrefix}

\* The directory or file a path text names: the fixed prefix is the sites
\* directory, separators separate, every other token is a component.
RECURSIVE Resolve(_)
Resolve(p) ==
  IF p = <<>> THEN <<>>
  ELSE IF Head(p) = SitesPrefix THEN <<"sites">> \o Resolve(Tail(p))
  ELSE IF Head(p) = "/" THEN Resolve(Tail(p))
  ELSE <<Head(p)>> \o Resolve(Tail(p))

\* os.path.join(a, b) for a relative b
os_path_join(a, b) ==
  IF a = <<>> THEN b
  ELSE IF a[Len(a)] \in Separators THEN a \o b
  ELSE a \o <<"/">> \o b

SitesDir == <<"sites">>

SiteDirs == { SitesDir, <<"sites", "acme">> }

ConfigFiles == { d \o <<"site_config.json">> : d \in SiteDirs }

LogsDirs == { d \o <<"logs">> : d \in SiteDirs }

Parent(p) == SubSeq(p, 1, Len(p) - 1)

NoFile == [kind |-> "absent", pairs |-> <<>>]
Malformed == [kind |-> "malformed", pairs |-> <<>>]
JsonArray == [kind |-> "json_array", pairs |-> <<>>]
JsonObject(ps) == [kind |-> "json_object", pairs |-> ps]

\* Members a pre-existing site_config.json may hold; a JSON text may repeat
\* a key.
Members ==
  { <<"developer_mode", <<"1">>>>,
    <<"developer_mode", <<"0">>>>,
    <<"host_name", <<"old.example.com">>>> }

MemberLists == UNION { [1..n -> Members] : n \in 0..MaxPairs }

ConfigContents ==
  { NoFile, Malformed, JsonArray } \cup { JsonObject(ps) : ps \in MemberLists }

\* A file system: the directories that exist, the content of each
\* site_config.json, and whether the process may create and write under the
\* sites directory.
FileSystems ==
  { [dirs |-> {SitesDir} \cup ds, files |-> fl, writable |-> w] :
      ds \in SUBSET ((SiteDirs \cup LogsDirs) \ {SitesDir}),
      fl \in [ConfigFiles -> ConfigContents],
      w \in BOOLEAN }

WellFormed(f) ==
  /\ \A d \in f.dirs : Len(d) > 1 => Parent(d) \in f.dirs
  /\ \A c \in ConfigFiles : f.files[c].kind # "absent" => Parent(c) \in f.dirs

\* The file systems the first run may find: the sites directory holds no
\* logs directory and at most a small site_config.json of its own.
InitialFileSystems ==
  { f \in FileSystems :
      /\ WellFormed(f)
      /\ SitesDir \o <<"logs">> \notin f.dirs
      /\ f.files[SitesDir \o <<"site_config.json">>]
           \in { NoFile, JsonObject(<< <<"developer_mode", <<"1">>>> >>) } }

(* ------------------------------------------------------------------- dict *)

HasKey(d, k) == \E i \in 1..Len(d) : d[i][1] = k

IndexOf(d, k) == CHOOSE i \in 1..Len(d) : d[i][1] = k

\* Fault variant of DictSet: dict.setdefault, an existing key keeps its value.
DictSetDefault(d, k, v) ==
  IF HasKey(d, k) THEN d ELSE Append(d, <<k, v>>)

\* Fault variant of DictSet: a list of pairs, every assignment appends.
DictSetAppend(d, k, v) == Append(d, <<k, v>>)

\* d[k] = v on a dict: an existing key keeps its place, a new key goes last
DictSet(d, k, v) ==
  IF HasKey(d, k)
  THEN [d EXCEPT ![IndexOf(d, k)] = <<k, v>>]
  ELSE Append(d, <<k, v>>)

\* The dict json.load builds from the members of a JSON object
RECURSIVE DictOf(_)
DictOf(ps) ==
  IF ps = <<>> THEN <<>>
  ELSE LET last == ps[Len(ps)]
       IN DictSet(DictOf(SubSeq(ps, 1, Len(ps) - 1)), last[1], last[2])

(* ----------------------------------------------------------- the script *)

VARIABLES
  secretsDir,  \* /tmp/site-secrets: the state of each secret file
  fs,          \* the sites directory tree
  pc,          \* the statement group the process is at
  env,         \* the secrets read so far (the script's module variables)
  config,      \* the in-memory config
  out,         \* standard output of this run
  exc,         \* the exception that ended the run, "none" otherwise
  failedAt,    \* the step the run aborted in, "none" otherwise
  steps,       \* the steps this run has completed, in order
  run,         \* the number of this run
  fs0,         \* the sites directory tree when this run started
  prev         \* the previous run: its outcome, its secrets, the tree it left

vars ==
  << secretsDir, fs, pc, env, config, out, exc, failedAt, steps, run, fs0, prev >>

Unset == [kind |-> "unset", pairs |-> <<>>]
Dict(ps) == [kind |-> "dict", pairs |-> ps]
List == [kind |-> "list", pairs |-> <<>>]

NoEnv == [n \in {} |-> <<>>]

\* Fault variant of read_secret: "except Exception", every failure to open
\* or read gives the default.
read_secret_catch_all(dir, name, default) ==
  IF dir[name].kind = "file"
  THEN [exc |-> "none", value |-> Strip(dir[name].text)]
  ELSE [exc |-> "none", value |-> default]

\* Fault variant of read_secret: no try/except, a missing file raises.
read_secret_uncaught(dir, name, default) ==
  CASE dir[name].kind = "file" ->
         [exc |-> "none", value |-> Strip(dir[name].text)]
    [] dir[name].kind = "absent" ->
         [exc |-> "FileNotFoundError", value |-> <<>>]
    [] dir[name].kind = "unreadable" ->
         [exc |-> "PermissionError", value |-> <<>>]
    [] OTHER ->
         [exc |-> "IsADirectoryError", value |-> <<>>]

\* read_secret(name, default): the value returned, or the exception raised
read_secret(dir, name, default) ==
  CASE dir[name].kind = "file" ->
         [exc |-> "none", value |-> Strip(dir[name].text)]
    [] dir[name].kind = "absent" ->
         [exc |-> "none", value |-> default]
    [] dir[name].kind = "unreadable" ->
         [exc |-> "PermissionError", value |-> <<>>]
    [] OTHER ->
         [exc |-> "IsADirectoryError", value |-> <<>>]

\* site_path = f"/home/frappe/frappe-bench/sites/{site_name}"
site_path(e) == <<SitesPrefix>> \o e["site_name"]

\* Fault variant of config_file: joined to the sites directory, not to
\* site_path.
config_file_root(e) == os_path_join(<<SitesPrefix>>, <<"site_config.json">>)

\* config_file = os.path.join(site_path, "site_config.json")
config_file(e) == os_path_join(site_path(e), <<"site_config.json">>)

ContentAt(f, path) ==
  IF Resolve(path) \in ConfigFiles THEN f.files[Resolve(path)] ELSE NoFile

\* Fault variant of load_config: replace, not merge; the config starts empty
\* whatever object the file holds.
load_config_replace(f, path) ==
  CASE ContentAt(f, path).kind = "malformed" ->
         [exc |-> "JSONDecodeError", config |-> Unset]
    [] ContentAt(f, path).kind = "json_array" ->
         [exc |-> "none", config |-> List]
    [] OTHER ->
         [exc |-> "none", config |-> Dict(<<>>)]

\* Fault variant of load_config: "except (FileNotFoundError, ValueError)", a
\* malformed file falls back to the empty object.
load_config_lenient(f, path) ==
  CASE ContentAt(f, path).kind \in {"absent", "malformed"} ->
         [exc |-> "none", config |-> Dict(<<>>)]
    [] ContentAt(f, path).kind = "json_array" ->
         [exc |-> "none", config |-> List]
    [] OTHER ->
         [exc |-> "none", config |-> Dict(DictOf(ContentAt(f, path).pairs))]

\* try: config = json.load(open(config_file)); except FileNotFoundError: {}
load_config(f, path) ==
  CASE ContentAt(f, path).kind = "absent" ->
         [exc |-> "none", config |-> Dict(<<>>)]
    [] ContentAt(f, path).kind = "malformed" ->
         [exc |-> "JSONDecodeError", config |-> Unset]
    [] ContentAt(f, path).kind = "json_array" ->
         [exc |-> "none", config |-> List]
    [] OTHER ->
         [exc |-> "none", config |-> Dict(DictOf(ContentAt(f, path).pairs))]

redis_url(bench, role) == <<"redis://">> \o bench \o <<"-redis-", role, ":6379">>

\* The value assigned to each computed key
Computed(e, k) ==
  CASE k = "host_name" -> e["domain"]
    [] k = "redis_cache" -> redis_url(e["bench_name"], "cache")
    [] k = "redis_queue" -> redis_url(e["bench_name"], "queue")
    [] k = "db_name" -> e["db_name"]
    [] k = "db_user" -> e["db_user"]
    [] k = "db_password" -> e["db_password"]
    [] k = "db_host" -> e["db_host"]
    [] OTHER -> e["db_provider"]

\* The first n assignments config[key] = value, in the script's order
RECURSIVE Assign(_, _, _)
Assign(d, e, n) ==
  IF n = 0 THEN d
  ELSE DictSet(Assign(d, e, n - 1), ComputedKeys[n], Computed(e, ComputedKeys[n]))

\* Fault variant of merge_fields: db_port is written to the config too.
merge_fields_with_port(d, e) ==
  DictSet(Assign(d, e, Len(ComputedKeys)), "db_port", e["db_port"])

merge_fields(d, e) == Assign(d, e, Len(ComputedKeys))

Ancestors(d) == { SubSeq(d, 1, i) : i \in 1..Len(d) }

\* Fault variant of makedirs: exist_ok left out, an existing directory
\* raises.
makedirs_strict(f, path) ==
  IF Resolve(path) \in f.dirs THEN [exc |-> "FileExistsError", fs |-> f]
  ELSE IF ~f.writable THEN [exc |-> "PermissionError", fs |-> f]
  ELSE [exc |-> "none", fs |-> [f EXCEPT !.dirs = @ \cup Ancestors(Resolve(path))]]

\* os.makedirs(path, exist_ok=True)
makedirs(f, path) ==
  IF Resolve(path) \in f.dirs THEN [exc |-> "none", fs |-> f]
  ELSE IF ~f.writable THEN [exc |-> "PermissionError", fs |-> f]
  ELSE [exc |-> "none", fs |-> [f EXCEPT !.dirs = @ \cup Ancestors(Resolve(path))]]

\* The members json.dump writes for a dict
json_dump(d) == JsonObject(d)

\* with open(config_file, 'w') as f: json.dump(config, f, indent=2)
write_config(f, path, d) ==
  IF ~f.writable \/ Parent(Resolve(path)) \notin f.dirs
       \/ Resolve(path) \notin ConfigFiles
  THEN [exc |-> IF f.writable THEN "FileNotFoundError" ELSE "PermissionError",
        fs |-> f]
  ELSE [exc |-> "none", fs |-> [f EXCEPT !.files[Resolve(path)] = json_dump(d)]]

StatusLines(e) ==
  << <<"Updated site_config.json for domain: ">> \o e["domain"],
     <<"Redis cache: ">> \o e["bench_name"] \o <<"-redis-cache:6379">>,
     <<"Redis queue: ">> \o e["bench_name"] \o <<"-redis-queue:6379">> >>

Init ==
  /\ secretsDir \in SecretDirStates
  /\ fs \in InitialFileSystems
  /\ pc = "read_secrets"
  /\ env = NoEnv
  /\ config = Unset
  /\ out = <<>>
  /\ exc = "none"
  /\ failedAt = "none"
  /\ steps = <<>>
  /\ run = 1
  /\ fs0 = fs
  /\ prev = [outcome |-> "none", secrets |-> secretsDir, fs |-> fs]

Raise(e) ==
  /\ exc' = e
  /\ failedAt' = pc
  /\ pc' = "aborted"

Complete(next) ==
  /\ pc' = next
  /\ steps' = Append(steps, pc)
  /\ UNCHANGED <<exc, failedAt>>

\* The read_secret calls of lines 15-23 up to the n-th, in order: the values
\* bound so far, and the exception and the secret that stopped them, if any.
RECURSIVE read_secrets(_, _)
read_secrets(dir, n) ==
  IF n = 0 THEN [exc |-> "none", at |-> "none", env |-> NoEnv]
  ELSE LET before == read_secrets(dir, n - 1)
           r == read_secret(dir, SecretOrder[n], <<>>)
       IN IF before.exc # "none" THEN before
          ELSE IF r.exc # "none"
          THEN [exc |-> r.exc, at |-> SecretOrder[n], env |-> before.env]
          ELSE [exc |-> "none", at |-> "none",
                env |-> before.env @@ (SecretOrder[n] :> r.value)]

\* lines 15-23
ReadSecrets ==
  /\ pc = "read_secrets"
  /\ LET r == read_secrets(secretsDir, Len(SecretOrder))
     IN /\ env' = r.env
        /\ IF r.exc # "none"
           THEN Raise(r.exc) /\ UNCHANGED steps
           ELSE Complete("load")
  /\ UNCHANGED <<secretsDir, fs, config, out, run, fs0, prev>>

\* lines 28-33
LoadConfig ==
  /\ pc = "load"
  /\ LET r == load_config(fs, config_file(env))
     IN IF r.exc # "none"
        THEN Raise(r.exc) /\ UNCHANGED <<config, steps>>
        ELSE config' = r.config /\ Complete("merge")
  /\ UNCHANGED <<secretsDir, fs, env, out, run, fs0, prev>>

\* Fault variant of MergeFields: the file is written before the directories
\* are ensured.
MergeFieldsThenWrite ==
  /\ pc = "merge"
  /\ IF config.kind # "dict"
     THEN Raise("TypeError") /\ UNCHANGED <<config, steps>>
     ELSE config' = Dict(merge_fields(config.pairs, env)) /\ Complete("write")
  /\ UNCHANGED <<secretsDir, fs, env, out, run, fs0, prev>>

\* lines 35-47
MergeFields ==
  /\ pc = "merge"
  /\ IF config.kind # "dict"
     THEN Raise("TypeError") /\ UNCHANGED <<config, steps>>
     ELSE config' = Dict(merge_fields(config.pairs, env))
          /\ Complete("ensure_site_dir")
  /\ UNCHANGED <<secretsDir, fs, env, out, run, fs0, prev>>

\* line 50
EnsureSiteDir ==
  /\ pc = "ensure_site_dir"
  /\ LET r == makedirs(fs, site_path(env))
     IN IF r.exc # "none"
        THEN Raise(r.exc) /\ UNCHANGED <<fs, steps>>
        ELSE fs' = r.fs /\ Complete("ensure_logs_dir")
  /\ UNCHANGED <<secretsDir, env, config, out, run, fs0, prev>>

\* line 53
EnsureLogsDir ==
  /\ pc = "ensure_logs_dir"
  /\ LET r == makedirs(fs, os_path_join(site_path(env), <<"logs">>))
     IN IF r.exc # "none"
        THEN Raise(r.exc) /\ UNCHANGED <<fs, steps>>
        ELSE fs' = r.fs /\ Complete("write")
  /\ UNCHANGED <<secretsDir, env, config, out, run, fs0, prev>>

\* lines 56-57
WriteConfig ==
  /\ pc = "write"
  /\ LET r == write_config(fs, config_file(env), config.pairs)
     IN IF r.exc # "none"
        THEN Raise(r.exc) /\ UNCHANGED <<fs, steps>>
        ELSE fs' = r.fs /\ Complete("emit")
  /\ UNCHANGED <<secretsDir, env, config, out, run, fs0, prev>>

\* lines 59-61
EmitStatus ==
  /\ pc = "emit"
  /\ out' = out \o StatusLines(env)
  /\ Complete("done")
  /\ UNCHANGED <<secretsDir, fs, env, config, run, fs0, prev>>

Finished == pc \in {"done", "aborted"}

\* The orchestrator invokes the script again, a fresh process, with the
\* secrets as they were or with the domain secret rotated.
Rerun ==
  /\ Finished
  /\ run < MaxRuns
  /\ \E s \in {secretsDir["domain"], RotatedDomain} :
       secretsDir' = [secretsDir EXCEPT !["domain"] = s]
  /\ prev' = [outcome |-> pc, secrets |-> secretsDir, fs |-> fs]
  /\ run' = run + 1
  /\ fs0' = fs
  /\ pc' = "read_secrets"
  /\ env' = NoEnv
  /\ config' = Unset
  /\ out' = <<>>
  /\ exc' = "none"
  /\ failedAt' = "none"
  /\ steps' = <<>>
  /\ UNCHANGED fs

Next ==
  \/ ReadSecrets
  \/ LoadConfig
  \/ MergeFields
  \/ EnsureSiteDir
  \/ EnsureLogsDir
  \/ WriteConfig
  \/ EmitStatus
  \/ Rerun

Spec == Init /\ [][Next]_vars

(* --------------------------------------------------- a run as a function *)

Aborted(step, e, f) ==
  [pc |-> "aborted", failedAt |-> step, exc |-> e, fs |-> f, out |-> <<>>]

\* The whole script, lines 15-61, from a secrets directory and a tree to the
\* outcome, the tree it leaves and the lines it prints.
RunScript(dir, f) ==
  LET rs == read_secrets(dir, Len(SecretOrder))
      e == rs.env
      lc == load_config(f, config_file(e))
      d == merge_fields(lc.config.pairs, e)
      m1 == makedirs(f, site_path(e))
      m2 == makedirs(m1.fs, os_path_join(site_path(e), <<"logs">>))
      w == write_config(m2.fs, config_file(e), d)
  IN CASE rs.exc # "none" -> Aborted("read_secrets", rs.exc, f)
       [] rs.exc = "none" /\ lc.exc # "none" -> Aborted("load", lc.exc, f)
       [] rs.exc = "none" /\ lc.exc = "none" /\ lc.config.kind # "dict" ->
            Aborted("merge", "TypeError", f)
       [] OTHER ->
            IF m1.exc # "none" THEN Aborted("ensure_site_dir", m1.exc, f)
            ELSE IF m2.exc # "none" THEN Aborted("ensure_logs_dir", m2.exc, m1.fs)
            ELSE IF w.exc # "none" THEN Aborted("write", w.exc, m2.fs)
            ELSE [pc |-> "done", failedAt |-> "none", exc |-> "none",
                  fs |-> w.fs, out |-> StatusLines(e)]

(* ------------------------------------------------- vocabulary of the claims *)

\* A text without its leading and trailing whitespace, stated by position.
Trimmed(t) ==
  LET solid == { i \in 1..Len(t) : t[i] \notin Whitespace }
  IN IF solid = {} THEN <<>>
     ELSE SubSeq(t, CHOOSE i \in solid : \A j \in solid : i <= j,
                    CHOOSE i \in solid : \A j \in solid : i >= j)

\* What a secret stands for: its trimmed content, or the empty text.
SecretValue(n) ==
  IF secretsDir[n].kind = "file" THEN Trimmed(secretsDir[n].text) ELSE <<>>

SecretsReadable == \A n \in SecretNames : secretsDir[n].kind \in {"file", "absent"}

SiteName == SecretValue("site_name")

\* <site-root>/<site_name>
SiteDir == IF SiteName = <<>> THEN SitesDir ELSE SitesDir \o SiteName

SiteLogsDir == SiteDir \o <<"logs">>

SiteConfigFile == SiteDir \o <<"site_config.json">>

RootConfigFile == SitesDir \o <<"site_config.json">>

RootLogsDir == SitesDir \o <<"logs">>

Before == fs0.files[SiteConfigFile]

After == fs.files[SiteConfigFile]

KeysOf(ps) == { ps[i][1] : i \in 1..Len(ps) }

\* The value a JSON object gives a key: that of the key's last member.
ValueOf(ps, k) ==
  LET at == { i \in 1..Len(ps) : ps[i][1] = k }
  IN ps[CHOOSE i \in at : \A j \in at : i >= j][2]

Occurrences(ps, k) == Cardinality({ i \in 1..Len(ps) : ps[i][1] = k })

\* The value each computed key is to have, from the secrets as they are.
Expected(k) ==
  CASE k = "host_name" -> SecretValue("domain")
    [] k = "redis_cache" ->
         <<"redis://">> \o SecretValue("bench_name") \o <<"-redis-", "cache", ":6379">>
    [] k = "redis_queue" ->
         <<"redis://">> \o SecretValue("bench_name") \o <<"-redis-", "queue", ":6379">>
    [] k = "db_type" -> SecretValue("db_provider")
    [] OTHER -> SecretValue(k)

(* ------------------------------------------------------------------- C1 *)

\* C1 (merge property): when the pre-existing site_config.json holds a JSON
\* object, every key of it other than the eight computed keys is in the file
\* a successful run has written, once, with the value it had before the run.
MergePreservesOtherKeys ==
  (pc = "done" /\ Before.kind = "json_object") =>
     /\ After.kind = "json_object"
     /\ \A k \in KeysOf(Before.pairs) \ ComputedKeySet :
          /\ Occurrences(After.pairs, k) = 1
          /\ ValueOf(After.pairs, k) = ValueOf(Before.pairs, k)

\* A successful run over a file that repeated an unrelated key and held a
\* computed one.
MergeWitness ==
  /\ pc = "done"
  /\ Before = JsonObject(<< <<"developer_mode", <<"1">>>>,
                            <<"developer_mode", <<"0">>>> >>)
  /\ ValueOf(After.pairs, "developer_mode") = <<"0">>
  /\ SecretValue("db_port") = <<"5432">>

(* ------------------------------------------------------------------- C2 *)

\* C2 (overwrite property): after a successful run the written config holds
\* each of the eight computed keys once, with the value the secrets of that
\* run give it, whatever the file held before.
OverwriteComputedKeys ==
  pc = "done" =>
     /\ After.kind = "json_object"
     /\ \A k \in ComputedKeySet :
          /\ Occurrences(After.pairs, k) = 1
          /\ ValueOf(After.pairs, k) = Expected(k)

\* A second run after the domain secret was rotated: host_name held the old
\* domain and now holds the new one.
OverwriteWitness ==
  /\ pc = "done"
  /\ run = 2
  /\ prev.outcome = "done"
  /\ prev.secrets["domain"] = Mounted("domain")
  /\ secretsDir["domain"] = RotatedDomain
  /\ Before.kind = "json_object"
  /\ ValueOf(Before.pairs, "host_name") = <<"acme.example.com">>
  /\ ValueOf(After.pairs, "host_name") = <<"new.example.com">>

(* ------------------------------------------------------------------- C3 *)

\* C3 (idempotence): when a run succeeded and the script runs again with the
\* same secrets on the tree that run left, the second run succeeds too and
\* leaves the tree, the config file's members and their order included, as
\* the first run left it.
Idempotent ==
  (Finished /\ run > 1 /\ prev.outcome = "done" /\ prev.secrets = secretsDir) =>
     /\ pc = "done"
     /\ fs = prev.fs
     /\ After.pairs = prev.fs.files[SiteConfigFile].pairs

\* A second successful run over a file the first run wrote from a
\* pre-existing object.
IdempotentWitness ==
  /\ pc = "done"
  /\ run = 2
  /\ prev.outcome = "done"
  /\ prev.secrets = secretsDir
  /\ Len(After.pairs) = Len(ComputedKeys) + 1
  /\ After.pairs[1][1] = "developer_mode"
  /\ After.pairs[2][1] = "host_name"

(* ------------------------------------------------------------------- C4 *)

ReadDone == pc # "read_secrets"

Defaults == { <<>>, <<"fallback">> }

\* C4 as stated: read_secret returns for every state of the secret file, the
\* trimmed content of a readable file and the default otherwise, and no run
\* aborts in the Read Secrets step.
ReadSecretNeverRaises ==
  ReadDone =>
     /\ \A n \in SecretNames, d \in Defaults :
          read_secret(secretsDir, n, d) =
            [exc |-> "none",
             value |-> IF secretsDir[n].kind = "file"
                       THEN Trimmed(secretsDir[n].text) ELSE d]
     /\ failedAt # "read_secrets"
     /\ DOMAIN env = SecretNames
     /\ \A n \in SecretNames : env[n] = SecretValue(n)

\* C4 as the code has it: read_secret returns the trimmed content of a
\* readable file and the default for a missing file; a file that is present
\* but cannot be opened for reading (no permission, a directory) makes it
\* raise, and the run aborts in the Read Secrets step with nothing loaded,
\* created, written or printed.
ReadSecretContract ==
  /\ \A n \in SecretNames, d \in Defaults :
       /\ secretsDir[n].kind = "file" =>
            read_secret(secretsDir, n, d) =
              [exc |-> "none", value |-> Trimmed(secretsDir[n].text)]
       /\ secretsDir[n].kind = "absent" =>
            read_secret(secretsDir, n, d) = [exc |-> "none", value |-> d]
       /\ secretsDir[n].kind \notin {"file", "absent"} =>
            read_secret(secretsDir, n, d).exc # "none"
  /\ (ReadDone /\ SecretsReadable) =>
       /\ failedAt # "read_secrets"
       /\ DOMAIN env = SecretNames
       /\ \A n \in SecretNames : env[n] = SecretValue(n)
  /\ (ReadDone /\ ~SecretsReadable) =>
       /\ pc = "aborted"
       /\ failedAt = "read_secrets"
       /\ exc \in {"PermissionError", "IsADirectoryError"}
       /\ config = Unset
       /\ fs = fs0
       /\ out = <<>>

\* A run that trimmed site_name and then aborted on the unreadable domain
\* secret.
ReadSecretWitness ==
  /\ pc = "aborted"
  /\ failedAt = "read_secrets"
  /\ exc = "PermissionError"
  /\ secretsDir["domain"] = Unreadable
  /\ secretsDir["site_name"] = File(<<"acme", "\n">>)
  /\ env["site_name"] = <<"acme">>

(* ------------------------------------------------------------------- C5 *)

\* C5: for a secret whose file is missing read_secret returns the default it
\* is given, and the script, which gives none, binds the empty text for each
\* missing secret; a missing file never aborts the Read Secrets step.
MissingSecretIsDefault ==
  /\ \A n \in SecretNames, d \in Defaults :
       secretsDir[n].kind = "absent" =>
         read_secret(secretsDir, n, d) = [exc |-> "none", value |-> d]
  /\ \A n \in SecretNames :
       (n \in DOMAIN env /\ secretsDir[n].kind = "absent") => env[n] = <<>>
  /\ (ReadDone /\ SecretsReadable) =>
       /\ failedAt # "read_secrets"
       /\ DOMAIN env = SecretNames

\* The Read Secrets step done over an empty secrets directory: nine empty
\* values, and the run goes on.
MissingSecretWitness ==
  /\ \A n \in SecretNames : secretsDir[n].kind = "absent"
  /\ pc = "load"
  /\ steps = <<"read_secrets">>
  /\ \A n \in SecretNames : env[n] = <<>>

(* ------------------------------------------------------------------- C6 *)

LoadDone == pc \notin {"read_secrets", "load"} /\ failedAt # "read_secrets"

\* C6: when the existing site_config.json is not valid JSON the run aborts in
\* the Load-or-Init step with a parse error and no config; the tree (the
\* config file, the directories) is as the run found it and nothing is
\* printed.
MalformedConfigAborts ==
  (LoadDone /\ Before.kind = "malformed") =>
     /\ pc = "aborted"
     /\ failedAt = "load"
     /\ exc = "JSONDecodeError"
     /\ config = Unset
     /\ fs = fs0
     /\ After = Malformed
     /\ out = <<>>

\* An abort on a malformed file of a site that has no logs directory.
MalformedConfigWitness ==
  /\ pc = "aborted"
  /\ failedAt = "load"
  /\ Before.kind = "malformed"
  /\ SiteName = <<"acme">>
  /\ SiteLogsDir \notin fs.dirs
  /\ fs.writable

(* ------------------------------------------------------------------- C7 *)

KeyList(ps) == [i \in 1..Len(ps) |-> ps[i][1]]

\* C7: when no site_config.json exists for the site, the Load-or-Init step
\* does not fail and starts from the empty object; the run can then only be
\* stopped by a tree it may not write to, and when it completes the file holds
\* exactly the eight computed keys (no db_port key) and the site directory and
\* its logs subdirectory exist.
MissingConfigStartsEmpty ==
  (Before.kind = "absent" /\ SecretsReadable) =>
     /\ failedAt \notin {"read_secrets", "load", "merge"}
     /\ pc = "merge" => config = Dict(<<>>)
     /\ pc = "aborted" => ~fs.writable
     /\ pc = "done" =>
          /\ After.kind = "json_object"
          /\ KeyList(After.pairs) = ComputedKeys
          /\ "db_port" \notin KeysOf(After.pairs)
          /\ SiteDir \in fs.dirs
          /\ SiteLogsDir \in fs.dirs

\* A completed first run for a site that had no directory.
MissingConfigWitness ==
  /\ pc = "done"
  /\ run = 1
  /\ SiteName = <<"acme">>
  /\ SiteDir \notin fs0.dirs
  /\ Before.kind = "absent"
  /\ SiteLogsDir \in fs.dirs
  /\ Len(After.pairs) = Len(ComputedKeys)

(* ------------------------------------------------------------------- C8 *)

Result == [pc |-> pc, failedAt |-> failedAt, exc |-> exc, fs |-> fs, out |-> out]

WithDbPort(s) == [secretsDir EXCEPT !["db_port"] = s]

ReadableDbPorts == { Absent, File(<<"5432">>), File(<<"3306", "\n">>) }

\* C8 as stated: a finished run has the outcome, the tree and the output of
\* the run from the same tree and the same secrets with the db_port file in
\* any other state, present or not.
DbPortHasNoInfluence ==
  Finished =>
     \A s \in ReadableDbPorts \cup {Unreadable, Directory} :
        RunScript(WithDbPort(s), fs0) = Result

\* C8 as the code has it: between runs in which the db_port file is missing
\* or readable, its presence and its value change nothing: same outcome, same
\* tree (the config file, its path and content), same status lines.  (A
\* db_port file that cannot be read aborts the run, see C4.)
ReadableDbPortHasNoInfluence ==
  (Finished /\ secretsDir["db_port"].kind \in {"file", "absent"}) =>
     \A s \in ReadableDbPorts : RunScript(WithDbPort(s), fs0) = Result

\* A completed run with db_port mounted, which the run without it equals.
DbPortWitness ==
  /\ pc = "done"
  /\ secretsDir["db_port"] = File(<<"5432">>)
  /\ env["db_port"] = <<"5432">>
  /\ RunScript(WithDbPort(Absent), fs0).pc = "done"
  /\ RunScript(WithDbPort(Absent), fs0).fs.files[SiteConfigFile] = After

(* ------------------------------------------------------------------- C9 *)

LinearOrder ==
  << "read_secrets", "load", "merge", "ensure_site_dir", "ensure_logs_dir",
     "write", "emit" >>

Done(step) == \E i \in 1..Len(steps) : steps[i] = step

\* C9: the steps a run has completed are an initial part of Read Secrets,
\* Load-or-Init, Merge, Ensure site directory, Ensure logs directory, Write,
\* Emit; the run is at the next step, or has aborted in it, or has completed
\* them all; the config file changes only at Write, with both directories
\* there, and lines are printed only after the file holds the merged config.
LinearSequence ==
  /\ Len(steps) <= Len(LinearOrder)
  /\ steps = SubSeq(LinearOrder, 1, Len(steps))
  /\ pc = "done" <=> steps = LinearOrder
  /\ pc = "aborted" <=> failedAt # "none"
  /\ pc = "aborted" => failedAt = LinearOrder[Len(steps) + 1]
  /\ ~Finished => pc = LinearOrder[Len(steps) + 1]
  /\ ~Done("ensure_site_dir") => fs.dirs = fs0.dirs
  /\ ~Done("write") => fs.files = fs0.files
  /\ Done("write") =>
       /\ Done("ensure_site_dir") /\ Done("ensure_logs_dir")
       /\ SiteDir \in fs.dirs /\ SiteLogsDir \in fs.dirs
       /\ After = JsonObject(config.pairs)
  /\ out # <<>> => (Done("write") /\ pc = "done" /\ Len(out) = 3)

\* A run that aborted in the Write step, after the directories were there.
LinearSequenceWitness ==
  /\ pc = "aborted"
  /\ failedAt = "write"
  /\ steps = SubSeq(LinearOrder, 1, 5)
  /\ SiteLogsDir \in fs.dirs
  /\ out = <<>>

(* ------------------------------------------------------------------ C10 *)

====
